---- MODULE Spec2Model ----
(***************************************************************************)
(* Undo/redo command stack of command-dp-example-v2.ts: ModifyCommand      *)
(* (apply / revert of one property of a receiver) and Invoker (the log of  *)
(* executed commands and the cursor into it).                              *)
(***************************************************************************)
EXTENDS Integers, Sequences, FiniteSets, TLC

\* ---------------------------------------------------------------- bounds
\* Longest log the model lets Invoker.execute build.
MaxLog == 3
\* Number of calls since construction that `history` records in full.
MaxHistory == 4

\* ------------------------------------------------------------ JS values
\* The value of a field that was never assigned, and of an array read past
\* either end.
UNDEFINED == "undefined"
\* The receiver of a command built around an element that was not found.
NULL == "null"
\* "No exception" / "no argument" marker of the call records.
NONE == "none"

\* The (receiver, property) pairs the commands read and write: the h5
\* element's textContent and its style object's color and fontSize.
Slots ==
    { <<"mainText", "textContent">>,
      <<"mainText.style", "color">>,
      <<"mainText.style", "fontSize">> }

\* The receivers' property values right after the page has loaded. A
\* receiver is an object whose properties hold what was last assigned to
\* them (ModifyCommandConfig.receiver: object); undefined is stored as is.
InitReceiver ==
    [s \in Slots |->
        IF s[2] = "textContent" THEN "text0"
        ELSE IF s[2] = "color" THEN "color0" ELSE "size0"]

\* The ModifyCommandConfig of every command object of the model: the three
\* commands the load handler builds, a second ChangeTextColorCommand (same
\* property, other value) and a ChangeTextCommand whose receiver is null.
Config ==
    [ increaseFontSizeCommand |->
        [receiver |-> "mainText.style", changedValue |-> "25px",
         modificationType |-> "fontSize"],
      changeColorToBlueCommand |->
        [receiver |-> "mainText.style", changedValue |-> "blue",
         modificationType |-> "color"],
      changeColorToRedCommand |->
        [receiver |-> "mainText.style", changedValue |-> "red",
         modificationType |-> "color"],
      changeTextCommand |->
        [receiver |-> "mainText", changedValue |-> "TEXT HAS BEEN CHANGED",
         modificationType |-> "textContent"],
      detachedTextCommand |->
        [receiver |-> NULL, changedValue |-> "TEXT HAS BEEN CHANGED",
         modificationType |-> "textContent"] ]

Commands == DOMAIN Config

\* The slot a command reads and writes (config.receiver[config.modificationType]).
SlotOf(c) == <<Config[c].receiver, Config[c].modificationType>>

\* ------------------------------------------------------------- variables
VARIABLES
    executedCommands,        \* Invoker.executedCommands (1-based sequence)
    currentExecutionState,   \* Invoker.currentExecutionState (0-based index, -1 = none)
    receiver,                \* the receivers' properties, by slot
    previousValue,           \* ModifyCommand.previousValue of each command
    applied,                 \* commands whose execute() has completed at least once
    lastCall,                \* the latest call: entry point, argument, outcome, commands invoked
    history,                 \* the calls since construction (first MaxHistory of them)
    roundTrip,               \* progress of an execute / undo / redo sequence
    receiverBefore,          \* the receivers' properties when the latest call began
    pc,                      \* interleaved callers: the statement each one is at, with its locals
    overlapped,              \* interleaved callers: one has taken a step while another was inside a method
    fault                    \* interleaved callers: an array read has hit an index outside the log

vars ==
    << executedCommands, currentExecutionState, receiver, previousValue,
       applied, lastCall, history, roundTrip, receiverBefore,
       pc, overlapped, fault >>

\* ------------------------------------------------- Array.prototype helpers
\* a[i] of a JavaScript array (0-based); undefined outside 0..length-1.
ArrayGet(a, i) == IF i >= 0 /\ i < Len(a) THEN a[i + 1] ELSE UNDEFINED

\* Splice deleting one element too few (its last one stays).
Splice_keepsLast(a, start, deleteCount) ==
    SubSeq(a, 1, start) \o SubSeq(a, start + deleteCount, Len(a))

\* Splice starting one element early.
Splice_oneEarlier(a, start, deleteCount) ==
    SubSeq(a, 1, start - 1) \o SubSeq(a, start + deleteCount + 1, Len(a))

\* a.splice(start, deleteCount): a without the deleteCount elements from start.
Splice(a, start, deleteCount) ==
    SubSeq(a, 1, start) \o SubSeq(a, start + deleteCount + 1, Len(a))

\* ---------------------------------------------------------- ModifyCommand
\* The state a call works on, with the exception it has raised (if any) and
\* the command methods it has entered, each with the cursor at that moment.
World ==
    [ executedCommands |-> executedCommands,
      currentExecutionState |-> currentExecutionState,
      receiver |-> receiver,
      previousValue |-> previousValue,
      thrown |-> NONE,
      invoked |-> << >> ]

\* ModifyCommand.execute ignoring modificationType: the new value is written
\* to every property of the receiver object.
ModifyCommand_execute_wholeReceiver(c, w) ==
    IF Config[c].receiver = NULL
    THEN [w EXCEPT !.thrown = "TypeError"]
    ELSE [w EXCEPT !.previousValue[c] = w.receiver[SlotOf(c)],
                   !.receiver = [s \in Slots |->
                                    IF s[1] = Config[c].receiver
                                    THEN Config[c].changedValue
                                    ELSE w.receiver[s]]]

\* ModifyCommand.execute capturing previousValue on the first apply only.
ModifyCommand_execute_captureOnce(c, w) ==
    IF Config[c].receiver = NULL
    THEN [w EXCEPT !.thrown = "TypeError"]
    ELSE [w EXCEPT !.previousValue[c] =
                        IF @ = UNDEFINED THEN w.receiver[SlotOf(c)] ELSE @,
                   !.receiver[SlotOf(c)] = Config[c].changedValue]

\* ModifyCommand.execute with its two statements swapped: the new value is
\* written first and then captured.
ModifyCommand_execute_writeThenCapture(c, w) ==
    IF Config[c].receiver = NULL
    THEN [w EXCEPT !.thrown = "TypeError"]
    ELSE [w EXCEPT !.previousValue[c] = Config[c].changedValue,
                   !.receiver[SlotOf(c)] = Config[c].changedValue]

\* ModifyCommand.execute: capture the current value, then write the new one.
\* Reading a property of a null receiver throws before anything is written.
ModifyCommand_execute(c, w) ==
    IF Config[c].receiver = NULL
    THEN [w EXCEPT !.thrown = "TypeError"]
    ELSE [w EXCEPT !.previousValue[c] = w.receiver[SlotOf(c)],
                   !.receiver[SlotOf(c)] = Config[c].changedValue]

\* ModifyCommand.undo: write previousValue back, whatever it holds.
ModifyCommand_undo(c, w) ==
    IF Config[c].receiver = NULL
    THEN [w EXCEPT !.thrown = "TypeError"]
    ELSE [w EXCEPT !.receiver[SlotOf(c)] = w.previousValue[c]]

\* x.execute() / x.undo() on an array element x: a TypeError when x is
\* undefined, else the method of the command, entered with the cursor as it
\* is at that moment.
CallMethod(x, method, w) ==
    IF x = UNDEFINED
    THEN [w EXCEPT !.thrown = "TypeError"]
    ELSE LET w1 == [w EXCEPT !.invoked =
                        Append(@, [cmd |-> x, method |-> method,
                                   cursor |-> w.currentExecutionState])]
         IN  IF method = "execute"
             THEN ModifyCommand_execute(x, w1)
             ELSE ModifyCommand_undo(x, w1)

\* ---------------------------------------------------------------- Invoker
\* Invoker.execute calling command.execute() first and touching the log only
\* when it has returned.
Invoker_execute_applyFirst(command, w) ==
    LET w0 == CallMethod(command, "execute", w)
        w1 == IF Len(w0.executedCommands) - 1 > w0.currentExecutionState
              THEN LET nextCommand == w0.currentExecutionState + 1
                   IN  [w0 EXCEPT !.executedCommands =
                            Splice(@, nextCommand, Len(@) - nextCommand)]
              ELSE w0
        w2 == [w1 EXCEPT !.executedCommands = Append(@, command)]
    IN  IF w0.thrown # NONE
        THEN w0
        ELSE [w2 EXCEPT !.currentExecutionState = Len(w2.executedCommands) - 1]

\* Invoker.execute recording the command without calling command.execute().
Invoker_execute_pushOnly(command, w) ==
    LET w1 == IF Len(w.executedCommands) - 1 > w.currentExecutionState
              THEN LET nextCommand == w.currentExecutionState + 1
                   IN  [w EXCEPT !.executedCommands =
                            Splice(@, nextCommand, Len(@) - nextCommand)]
              ELSE w
        w2 == [w1 EXCEPT !.executedCommands = Append(@, command)]
    IN  [w2 EXCEPT !.currentExecutionState = Len(w2.executedCommands) - 1]

\* Invoker.execute with its last two statements swapped: the cursor is set
\* before command.execute() is called.
Invoker_execute_cursorFirst(command, w) ==
    LET w1 == IF Len(w.executedCommands) - 1 > w.currentExecutionState
              THEN LET nextCommand == w.currentExecutionState + 1
                   IN  [w EXCEPT !.executedCommands =
                            Splice(@, nextCommand, Len(@) - nextCommand)]
              ELSE w
        w2 == [w1 EXCEPT !.executedCommands = Append(@, command)]
        w3 == [w2 EXCEPT !.currentExecutionState = Len(w2.executedCommands) - 1]
    IN  CallMethod(command, "execute", w3)

\* Invoker.execute(command).
Invoker_execute(command, w) ==
    LET w1 == IF Len(w.executedCommands) - 1 > w.currentExecutionState
              THEN LET nextCommand == w.currentExecutionState + 1
                   IN  [w EXCEPT !.executedCommands =
                            Splice(@, nextCommand, Len(@) - nextCommand)]
              ELSE w
        w2 == [w1 EXCEPT !.executedCommands = Append(@, command)]
        w3 == CallMethod(command, "execute", w2)
    IN  IF w3.thrown # NONE
        THEN w3
        ELSE [w3 EXCEPT !.currentExecutionState = Len(w3.executedCommands) - 1]

\* Invoker.undo without its guard.
Invoker_undo_noGuard(w) ==
    LET index == w.currentExecutionState
        w1 == [w EXCEPT !.currentExecutionState = @ - 1]
    IN  CallMethod(ArrayGet(w1.executedCommands, index), "undo", w1)

\* Invoker.undo without the decrement.
Invoker_undo_noDecrement(w) ==
    IF w.currentExecutionState >= 0
    THEN CallMethod(ArrayGet(w.executedCommands, w.currentExecutionState), "undo", w)
    ELSE w

\* Invoker.undo reverting first and decrementing once revert has returned.
Invoker_undo_revertThenDecrement(w) ==
    IF w.currentExecutionState >= 0
    THEN LET w1 == CallMethod(ArrayGet(w.executedCommands, w.currentExecutionState),
                              "undo", w)
         IN  IF w1.thrown # NONE
             THEN w1
             ELSE [w1 EXCEPT !.currentExecutionState = @ - 1]
    ELSE w

\* Invoker.undo(): executedCommands[currentExecutionState--].undo().
Invoker_undo(w) ==
    IF w.currentExecutionState >= 0
    THEN LET index == w.currentExecutionState
             w1 == [w EXCEPT !.currentExecutionState = @ - 1]
         IN  CallMethod(ArrayGet(w1.executedCommands, index), "undo", w1)
    ELSE w

\* Invoker.redo with <= for < in its guard.
Invoker_redo_lenientGuard(w) ==
    IF w.currentExecutionState <= Len(w.executedCommands) - 1
    THEN LET w1 == [w EXCEPT !.currentExecutionState = @ + 1]
         IN  CallMethod(ArrayGet(w1.executedCommands, w1.currentExecutionState),
                        "execute", w1)
    ELSE w

\* Invoker.redo with a postfix increment: executedCommands[currentExecutionState++].
Invoker_redo_postIncrement(w) ==
    IF w.currentExecutionState < Len(w.executedCommands) - 1
    THEN LET index == w.currentExecutionState
             w1 == [w EXCEPT !.currentExecutionState = @ + 1]
         IN  CallMethod(ArrayGet(w1.executedCommands, index), "execute", w1)
    ELSE w

\* Invoker.redo(): executedCommands[++currentExecutionState].execute().
Invoker_redo(w) ==
    IF w.currentExecutionState < Len(w.executedCommands) - 1
    THEN LET w1 == [w EXCEPT !.currentExecutionState = @ + 1]
         IN  CallMethod(ArrayGet(w1.executedCommands, w1.currentExecutionState),
                        "execute", w1)
    ELSE w

\* ------------------------------------------------------- call bookkeeping
\* The record of one call.
CallRecord(op, cmd, w) ==
    [op |-> op, cmd |-> cmd, thrown |-> w.thrown, invoked |-> w.invoked]

\* What `history` holds once more than MaxHistory calls have been made.
Overflow == << [op |-> "overflow", cmd |-> NONE, thrown |-> NONE, invoked |-> << >>] >>

\* The receivers, log and cursor of a world.
Snapshot(w) ==
    [ executedCommands |-> w.executedCommands,
      currentExecutionState |-> w.currentExecutionState,
      receiver |-> w.receiver ]

NoRoundTrip == [stage |-> 0, snap |-> Snapshot(
    [executedCommands |-> << >>, currentExecutionState |-> -1, receiver |-> InitReceiver])]

\* Stage 1: an execute has returned (snap = the state it left); stage 2: an
\* undo followed it; stage 3: a redo followed that undo.
NextRoundTrip(op, w) ==
    IF op = "execute" /\ w.thrown = NONE
    THEN [stage |-> 1, snap |-> Snapshot(w)]
    ELSE IF op = "undo" /\ roundTrip.stage = 1
    THEN [roundTrip EXCEPT !.stage = 2]
    ELSE IF op = "redo" /\ roundTrip.stage = 2
    THEN [roundTrip EXCEPT !.stage = 3]
    ELSE NoRoundTrip

\* The commands whose execute() ran to completion in world w.
Completed(w) ==
    IF w.thrown # NONE
    THEN {}
    ELSE { w.invoked[i].cmd : i \in { j \in DOMAIN w.invoked : w.invoked[j].method = "execute" } }

\* The call's effects become the new state.
Commit(op, cmd, w) ==
    /\ executedCommands' = w.executedCommands
    /\ currentExecutionState' = w.currentExecutionState
    /\ receiver' = w.receiver
    /\ previousValue' = w.previousValue
    /\ applied' = applied \cup Completed(w)
    /\ lastCall' = CallRecord(op, cmd, w)
    /\ history' = IF history # Overflow /\ Len(history) < MaxHistory
                  THEN Append(history, CallRecord(op, cmd, w))
                  ELSE Overflow
    /\ roundTrip' = NextRoundTrip(op, w)
    /\ receiverBefore' = receiver
    /\ UNCHANGED << pc, overlapped, fault >>

\* The callers of the interleaved specification.
Callers == {"caller1", "caller2"}

\* A caller that is in no method.
Idle == [at |-> "idle", command |-> NONE, index |-> -1]

\* ---------------------------------------------------------------- actions
Init ==
    /\ executedCommands = << >>
    /\ currentExecutionState = -1
    /\ receiver = InitReceiver
    /\ previousValue = [c \in Commands |-> UNDEFINED]
    /\ applied = {}
    /\ lastCall = [op |-> "new", cmd |-> NONE, thrown |-> NONE, invoked |-> << >>]
    /\ history = << >>
    /\ roundTrip = NoRoundTrip
    /\ receiverBefore = InitReceiver
    /\ pc = [k \in Callers |-> Idle]
    /\ overlapped = FALSE
    /\ fault = FALSE

\* A click on a change button: invoker.execute(command).
Execute(command) ==
    /\ Len(Invoker_execute(command, World).executedCommands) <= MaxLog
    /\ Commit("execute", command, Invoker_execute(command, World))

\* A click on the undo button: invoker.undo().
Undo == Commit("undo", NONE, Invoker_undo(World))

\* A click on the redo button: invoker.redo().
Redo == Commit("redo", NONE, Invoker_redo(World))

Next ==
    \/ \E command \in Commands : Execute(command)
    \/ Undo
    \/ Redo

Spec == Init /\ [][Next]_vars

\* The commands whose receiver exists: their execute and undo cannot throw.
Reliable == { c \in Commands : Config[c].receiver # NULL }

\* The page with every command built around an existing receiver.
NextNoFail ==
    \/ \E command \in Reliable : Execute(command)
    \/ Undo
    \/ Redo

SpecNoFail == Init /\ [][NextNoFail]_vars

\* A client that calls the Command interface itself, without an Invoker.
DirectExecute(command) ==
    Commit("Command.execute", command, CallMethod(command, "execute", World))

DirectUndo(command) ==
    Commit("Command.undo", command, CallMethod(command, "undo", World))

NextDirect ==
    \/ \E command \in Commands : DirectExecute(command)
    \/ \E command \in Commands : DirectUndo(command)

SpecDirect == Init /\ [][NextDirect]_vars

\* ------------------------------------------------- interleaved callers
\* The Invoker's methods run statement by statement by two callers with no
\* mutual exclusion. The commands the callers pass to execute.
InterleavedCommands == {"changeColorToBlueCommand", "changeTextCommand"}

\* Caller k moves to statement `to`; the receivers and commands become those
\* of world w. The call records of the serial specification stay as they are.
Step(k, to, w) ==
    /\ pc' = [pc EXCEPT ![k] = to]
    /\ overlapped' = (overlapped \/ \E other \in Callers \ {k} : pc[other].at # "idle")
    /\ executedCommands' = w.executedCommands
    /\ currentExecutionState' = w.currentExecutionState
    /\ receiver' = w.receiver
    /\ previousValue' = w.previousValue
    /\ UNCHANGED << applied, lastCall, history, roundTrip, receiverBefore >>

\* execute, lines 88-91: the test and the splice.
IExecuteTruncate(k, command) ==
    /\ pc[k].at = "idle"
    /\ Len(executedCommands)
         + Cardinality({ other \in Callers : pc[other].at = "execute.push" }) < MaxLog
    /\ Step(k, [at |-> "execute.push", command |-> command, index |-> -1],
            IF Len(executedCommands) - 1 > currentExecutionState
            THEN LET nextCommand == currentExecutionState + 1
                 IN  [World EXCEPT !.executedCommands =
                          Splice(@, nextCommand, Len(@) - nextCommand)]
            ELSE World)
    /\ UNCHANGED fault

\* execute, line 93: the push.
IExecutePush(k) ==
    /\ pc[k].at = "execute.push"
    /\ Step(k, [pc[k] EXCEPT !.at = "execute.apply"],
            [World EXCEPT !.executedCommands = Append(@, pc[k].command)])
    /\ UNCHANGED fault

\* execute, line 94: command.execute(); an exception ends the call.
IExecuteApply(k) ==
    /\ pc[k].at = "execute.apply"
    /\ LET w == CallMethod(pc[k].command, "execute", World)
       IN  Step(k, IF w.thrown # NONE THEN Idle
                   ELSE [pc[k] EXCEPT !.at = "execute.setCursor"], w)
    /\ UNCHANGED fault

\* execute, line 95: the cursor is set to the last index of the log as it is now.
IExecuteSetCursor(k) ==
    /\ pc[k].at = "execute.setCursor"
    /\ Step(k, Idle,
            [World EXCEPT !.currentExecutionState = Len(executedCommands) - 1])
    /\ UNCHANGED fault

\* The undo test passing whatever the cursor is.
IUndoTest_noGuard(k) ==
    /\ pc[k].at = "idle"
    /\ Step(k, [at |-> "undo.move", command |-> NONE, index |-> -1], World)
    /\ UNCHANGED fault

\* undo, line 99: the test; a call that fails it returns at once.
IUndoTest(k) ==
    /\ pc[k].at = "idle"
    /\ currentExecutionState >= 0
    /\ Step(k, [at |-> "undo.move", command |-> NONE, index |-> -1], World)
    /\ UNCHANGED fault

\* undo, line 100: currentExecutionState-- (the index is the value read).
IUndoMove(k) ==
    /\ pc[k].at = "undo.move"
    /\ Step(k, [at |-> "undo.invoke", command |-> NONE, index |-> currentExecutionState],
            [World EXCEPT !.currentExecutionState = @ - 1])
    /\ UNCHANGED fault

\* undo, line 100: executedCommands[index].undo().
IUndoInvoke(k) ==
    /\ pc[k].at = "undo.invoke"
    /\ Step(k, Idle, CallMethod(ArrayGet(executedCommands, pc[k].index), "undo", World))
    /\ fault' = (fault \/ ArrayGet(executedCommands, pc[k].index) = UNDEFINED)

\* redo, line 105: the test; a call that fails it returns at once.
IRedoTest(k) ==
    /\ pc[k].at = "idle"
    /\ currentExecutionState < Len(executedCommands) - 1
    /\ Step(k, [at |-> "redo.move", command |-> NONE, index |-> -1], World)
    /\ UNCHANGED fault

\* redo, line 106: ++currentExecutionState (the index is the new value).
IRedoMove(k) ==
    /\ pc[k].at = "redo.move"
    /\ Step(k, [at |-> "redo.invoke", command |-> NONE, index |-> currentExecutionState + 1],
            [World EXCEPT !.currentExecutionState = @ + 1])
    /\ UNCHANGED fault

\* redo, line 106: executedCommands[index].execute().
IRedoInvoke(k) ==
    /\ pc[k].at = "redo.invoke"
    /\ Step(k, Idle, CallMethod(ArrayGet(executedCommands, pc[k].index), "execute", World))
    /\ fault' = (fault \/ ArrayGet(executedCommands, pc[k].index) = UNDEFINED)

NextInterleaved ==
    \E k \in Callers :
        \/ \E command \in InterleavedCommands : IExecuteTruncate(k, command)
        \/ IExecutePush(k)
        \/ IExecuteApply(k)
        \/ IExecuteSetCursor(k)
        \/ IUndoTest(k)
        \/ IUndoMove(k)
        \/ IUndoInvoke(k)
        \/ IRedoTest(k)
        \/ IRedoMove(k)
        \/ IRedoInvoke(k)

SpecInterleaved == Init /\ [][NextInterleaved]_vars

\* ================================================================ claims
\* Helpers of the claims' formulas.
Returned(r, op) == r.op = op /\ r.thrown = NONE

\* h is n >= 1 executes that all returned, followed by exactly n undos.
ExecutesThenUndos(h) ==
    \E n \in 1..Len(h) :
        /\ Len(h) = 2 * n
        /\ \A i \in 1..n : Returned(h[i], "execute")
        /\ \A i \in (n + 1)..(2 * n) : h[i].op = "undo"

\* The log entries at indices 0..cursor.
AppliedPrefix == SubSeq(executedCommands, 1, currentExecutionState + 1)

\* The slots of the commands a call has invoked.
TouchedSlots(r) == { SlotOf(r.invoked[i].cmd) : i \in DOMAIN r.invoked }

\* ---------------------------------------------------------------------
\* C1: in every reachable state the cursor satisfies
\* -1 <= currentExecutionState <= executedCommands.length - 1.
C1_CursorInRange ==
    /\ currentExecutionState >= -1
    /\ currentExecutionState <= Len(executedCommands) - 1

\* C1 witness: the cursor has been driven back to -1 below a log of two or
\* more entries, and the last undo reverted a command.
C1_Witness ==
    /\ lastCall.op = "undo"
    /\ Len(lastCall.invoked) = 1
    /\ currentExecutionState = -1
    /\ Len(executedCommands) >= 2

\* ---------------------------------------------------------------------
\* C2 (as claimed): after n >= 1 executes from the initial state followed by
\* n undos, every receiver property has the value it had before the first
\* execute.
C2_UndoAllRestores ==
    (history # Overflow /\ ExecutesThenUndos(history)) => receiver = InitReceiver

\* ---------------------------------------------------------------------
\* C3: an execute(op) that returns leaves the log equal to the entries at
\* 0..cursor followed by op, with the cursor on the new last index; a redo
\* right after it changes nothing and invokes nothing; and execute(o1),
\* execute(o2), undo(), execute(o3) from the initial state leaves [o1, o3].
C3_ExecuteDiscardsRedoBranch ==
    [][ /\ Returned(lastCall', "execute") =>
            /\ executedCommands' = Append(AppliedPrefix, lastCall'.cmd)
            /\ currentExecutionState' = Len(executedCommands') - 1
        /\ (Returned(lastCall, "execute") /\ lastCall'.op = "redo") =>
            /\ UNCHANGED << executedCommands, currentExecutionState, receiver, previousValue >>
            /\ lastCall'.invoked = << >>
            /\ lastCall'.thrown = NONE
        /\ ( /\ history' # Overflow
             /\ Len(history') = 4
             /\ Returned(history'[1], "execute")
             /\ Returned(history'[2], "execute")
             /\ history'[3].op = "undo"
             /\ Returned(history'[4], "execute") ) =>
            executedCommands' = << history'[1].cmd, history'[4].cmd >>
      ]_vars

\* C3 witness: the scenario has run with three different commands and the
\* second one is gone from the log.
C3_Witness ==
    /\ history # Overflow
    /\ Len(history) = 4
    /\ Returned(history[1], "execute")
    /\ Returned(history[2], "execute")
    /\ history[3].op = "undo"
    /\ Returned(history[4], "execute")
    /\ Cardinality({history[1].cmd, history[2].cmd, history[4].cmd}) = 3
    /\ executedCommands = << history[1].cmd, history[4].cmd >>
    /\ currentExecutionState = 1

\* ---------------------------------------------------------------------
\* C4: an execute(o) that returns, then undo(), then redo() leaves every
\* receiver property, the log and the cursor as they were right after the
\* execute.
C4_RoundTrip ==
    roundTrip.stage = 3 => Snapshot(World) = roundTrip.snap

\* C4 witness: the round trip has completed on a log of two or more entries,
\* its redo re-applied the command, and the property differs from its
\* initial value.
C4_Witness ==
    /\ roundTrip.stage = 3
    /\ Len(executedCommands) >= 2
    /\ lastCall.op = "redo"
    /\ Len(lastCall.invoked) = 1
    /\ receiver[SlotOf(lastCall.invoked[1].cmd)] # InitReceiver[SlotOf(lastCall.invoked[1].cmd)]

\* ---------------------------------------------------------------------
\* C5: undo() at cursor = -1 and redo() at cursor = length - 1 change neither
\* cursor, log, receivers nor any command, invoke nothing and do not throw.
C5_BoundaryNoOps ==
    [][ /\ (lastCall'.op = "undo" /\ currentExecutionState = -1) =>
            /\ currentExecutionState' = -1
            /\ UNCHANGED << executedCommands, receiver, previousValue >>
            /\ lastCall'.invoked = << >>
            /\ lastCall'.thrown = NONE
        /\ (lastCall'.op = "redo" /\ currentExecutionState = Len(executedCommands) - 1) =>
            /\ UNCHANGED << currentExecutionState, executedCommands, receiver, previousValue >>
            /\ lastCall'.invoked = << >>
            /\ lastCall'.thrown = NONE
      ]_vars

\* C5 witness: execute, redo at the tail (nothing invoked), undo, undo at -1
\* (nothing invoked).
C5_Witness ==
    /\ history # Overflow
    /\ Len(history) = 4
    /\ Returned(history[1], "execute")
    /\ Returned(history[2], "redo") /\ history[2].invoked = << >>
    /\ Returned(history[3], "undo") /\ Len(history[3].invoked) = 1
    /\ Returned(history[4], "undo") /\ history[4].invoked = << >>
    /\ currentExecutionState = -1
    /\ Len(executedCommands) = 1

\* ---------------------------------------------------------------------
\* C6 (as claimed): undo() with cursor >= 0 invokes revert exactly once, on
\* log[cursor], and the cursor still holds its pre-call value while revert
\* runs, and after the call if revert failed.
C6_DecrementAfterRevert ==
    [][ (lastCall'.op = "undo" /\ currentExecutionState >= 0) =>
            /\ lastCall'.invoked =
                 << [cmd |-> executedCommands[currentExecutionState + 1],
                     method |-> "undo",
                     cursor |-> currentExecutionState] >>
            /\ lastCall'.thrown # NONE => currentExecutionState' = currentExecutionState
      ]_vars

\* C6 (amended): undo() with cursor >= 0 invokes revert exactly once, on
\* log[cursor] (pre-call cursor) and on no other operation; the cursor is
\* decremented before revert is entered, so it holds the pre-call value
\* minus one while revert runs and after the call, whether or not revert
\* failed; the log is unchanged.
C6_DecrementBeforeRevert ==
    [][ (lastCall'.op = "undo" /\ currentExecutionState >= 0) =>
            /\ lastCall'.invoked =
                 << [cmd |-> executedCommands[currentExecutionState + 1],
                     method |-> "undo",
                     cursor |-> currentExecutionState - 1] >>
            /\ currentExecutionState' = currentExecutionState - 1
            /\ executedCommands' = executedCommands
      ]_vars

\* C6 witness: an undo whose revert threw has left the cursor decremented.
C6_Witness ==
    /\ lastCall.op = "undo"
    /\ lastCall.thrown = "TypeError"
    /\ Len(lastCall.invoked) = 1
    /\ lastCall.invoked[1].cursor = currentExecutionState
    /\ ArrayGet(executedCommands, currentExecutionState + 1) = lastCall.invoked[1].cmd

\* ---------------------------------------------------------------------
\* C7: redo() with cursor < length - 1 increments the cursor by one, then
\* invokes apply exactly once, on the operation at the new cursor position
\* and on no other; the log is unchanged.
C7_RedoAppliesNext ==
    [][ (lastCall'.op = "redo" /\ currentExecutionState < Len(executedCommands) - 1) =>
            /\ currentExecutionState' = currentExecutionState + 1
            /\ lastCall'.invoked =
                 << [cmd |-> executedCommands[currentExecutionState' + 1],
                     method |-> "execute",
                     cursor |-> currentExecutionState + 1] >>
            /\ executedCommands' = executedCommands
      ]_vars

\* C7 witness: a redo from the middle of the log has re-applied a command
\* and entries remain after the cursor.
C7_Witness ==
    /\ Returned(lastCall, "redo")
    /\ Len(lastCall.invoked) = 1
    /\ currentExecutionState >= 1
    /\ currentExecutionState < Len(executedCommands) - 1

\* ---------------------------------------------------------------------
\* C8 (as claimed): revert on a command whose apply has never completed
\* leaves every receiver property unchanged or fails with a distinct
\* precondition error; it never writes a value into the receiver.
C8_RevertBeforeApplyGuarded ==
    [][ (lastCall'.op = "Command.undo" /\ lastCall'.cmd \notin applied) =>
            \/ receiver' = receiver
            \/ lastCall'.thrown = "PreconditionError"
      ]_vars

\* ---------------------------------------------------------------------
\* C9: a call changes no receiver property other than the one of the command
\* it invokes, and an apply captures the prior value of its own property
\* only.
C9_IndependentSlots ==
    [][ /\ \A s \in Slots \ TouchedSlots(lastCall') : receiver'[s] = receiver[s]
        /\ \A i \in DOMAIN lastCall'.invoked :
              (lastCall'.invoked[i].method = "execute" /\ lastCall'.thrown = NONE) =>
                  previousValue'[lastCall'.invoked[i].cmd] =
                      receiver[SlotOf(lastCall'.invoked[i].cmd)]
        /\ Len(lastCall'.invoked) <= 1
      ]_vars

\* C9 witness: commands on all three properties are interleaved in the log,
\* and an undo of one of them has left the other two properties changed.
C9_Witness ==
    /\ Returned(lastCall, "undo")
    /\ Len(lastCall.invoked) = 1
    /\ Cardinality({ SlotOf(executedCommands[i]) : i \in DOMAIN executedCommands }) = 3
    /\ Cardinality({ s \in Slots : receiver[s] # InitReceiver[s] }) = 2
    /\ receiver[SlotOf(lastCall.invoked[1].cmd)] = InitReceiver[SlotOf(lastCall.invoked[1].cmd)]

\* ---------------------------------------------------------------------
\* C10: when the command's apply fails inside execute(command), the failure
\* reaches the caller and nothing is rolled back: the log is the entries at
\* 0..cursor followed by the command, so the entries that were after the
\* cursor are gone.
C10_FailedApplyNoRollback ==
    [][ (lastCall'.op = "execute" /\ Config[lastCall'.cmd].receiver = NULL) =>
            /\ lastCall'.thrown = "TypeError"
            /\ executedCommands' = Append(AppliedPrefix, lastCall'.cmd)
            /\ UNCHANGED << currentExecutionState, receiver, previousValue >>
      ]_vars

\* C10 witness: execute, undo, then an execute whose apply threw: the undone
\* entry is no longer in the log.
C10_Witness ==
    /\ history # Overflow
    /\ Len(history) = 3
    /\ Returned(history[1], "execute")
    /\ Returned(history[2], "undo")
    /\ history[3].op = "execute" /\ history[3].thrown = "TypeError"
    /\ executedCommands = << history[3].cmd >>
    /\ history[1].cmd # history[3].cmd
    /\ currentExecutionState = -1

\* ---------------------------------------------------------------------
\* The log indices (1-based) at or below the cursor whose command writes slot s.
WritersOf(s) ==
    { i \in 1..(currentExecutionState + 1) :
        i <= Len(executedCommands) /\ SlotOf(executedCommands[i]) = s }

\* The value slot s should hold if exactly the commands at 0..cursor were applied.
ExpectedValue(s) ==
    IF WritersOf(s) = {}
    THEN InitReceiver[s]
    ELSE LET last == CHOOSE i \in WritersOf(s) : \A j \in WritersOf(s) : j <= i
         IN  Config[executedCommands[last]].changedValue

\* The commands whose apply completed in the call recorded by r.
AppliedBy(r) ==
    IF r.thrown # NONE
    THEN {}
    ELSE { r.invoked[i].cmd : i \in { j \in DOMAIN r.invoked : r.invoked[j].method = "execute" } }

\* C11 (as claimed): in every reachable state each receiver property holds
\* the new value of the last command at a log index <= cursor that writes it,
\* or its initial value when there is none.
C11_AppliedPrefixDeterminesReceiver ==
    \A s \in Slots : receiver[s] = ExpectedValue(s)

\* ---------------------------------------------------------------------
\* C12 (as claimed): previousValue is unset until the command's first apply
\* and no apply after the first one changes it.
C12_PreviousValueWrittenOnce ==
    [][ \A c \in Commands :
            /\ c \notin applied => previousValue[c] = UNDEFINED
            /\ c \in applied => previousValue'[c] = previousValue[c]
      ]_vars

\* C12 (amended): previousValue is unset until the command's first apply has
\* completed, and it is written on every apply, not once: each apply, through
\* execute or redo, overwrites it with the value the property holds at that
\* moment; nothing else changes it.
C12_PreviousValueWrittenOnEveryApply ==
    [][ \A c \in Commands :
            /\ c \notin applied' => previousValue'[c] = UNDEFINED
            /\ previousValue'[c] =
                 IF c \in AppliedBy(lastCall')
                 THEN receiver[SlotOf(c)]
                 ELSE previousValue[c]
      ]_vars

\* C12 witness: a command applied by execute, reverted, and applied again
\* after another command changed the same property: its previousValue is no
\* longer the value its first apply captured.
C12_Witness ==
    /\ history # Overflow
    /\ Len(history) = 4
    /\ Returned(history[1], "execute")
    /\ Returned(history[2], "undo")
    /\ Returned(history[3], "execute")
    /\ Returned(history[4], "execute")
    /\ history[4].cmd = history[1].cmd
    /\ history[3].cmd # history[1].cmd
    /\ SlotOf(history[3].cmd) = SlotOf(history[1].cmd)
    /\ previousValue[history[1].cmd] = Config[history[3].cmd].changedValue
    /\ previousValue[history[1].cmd] # InitReceiver[SlotOf(history[1].cmd)]

\* ---------------------------------------------------------------------
\* C13: every apply captures the property's current value into previousValue
\* and then writes the new value; so after execute(o), execute(o) of one
\* command object previousValue holds the already-changed value, and the
\* undo calls that follow leave the property at that value, not at the value
\* it had before the first apply.
C13_ApplyRecaptures ==
    [][ /\ \A c \in AppliedBy(lastCall') :
              /\ previousValue'[c] = receiver[SlotOf(c)]
              /\ receiver'[SlotOf(c)] = Config[c].changedValue
        /\ ( /\ history' # Overflow
             /\ Len(history') >= 2
             /\ Returned(history'[1], "execute")
             /\ Returned(history'[2], "execute")
             /\ history'[1].cmd = history'[2].cmd
             /\ \A i \in 3..Len(history') : history'[i].op = "undo" ) =>
            /\ previousValue'[history'[1].cmd] = Config[history'[1].cmd].changedValue
            /\ receiver'[SlotOf(history'[1].cmd)] = Config[history'[1].cmd].changedValue
      ]_vars

\* C13 witness: execute(o), execute(o), undo, undo has emptied the applied
\* range and the property still holds o's new value.
C13_Witness ==
    /\ history # Overflow
    /\ Len(history) = 4
    /\ Returned(history[1], "execute")
    /\ Returned(history[2], "execute")
    /\ history[1].cmd = history[2].cmd
    /\ Returned(history[3], "undo")
    /\ Returned(history[4], "undo")
    /\ currentExecutionState = -1
    /\ receiver[SlotOf(history[1].cmd)] = Config[history[1].cmd].changedValue
    /\ receiver[SlotOf(history[1].cmd)] # InitReceiver[SlotOf(history[1].cmd)]

\* ---------------------------------------------------------------------
\* C15: when no apply or revert can fail, the Invoker invokes revert only on
\* a command whose apply has completed at least once, and the revert returns.
C15_RevertOnlyAfterApply ==
    [][ \A i \in DOMAIN lastCall'.invoked :
            lastCall'.invoked[i].method = "undo" =>
                /\ lastCall'.invoked[i].cmd \in applied
                /\ previousValue[lastCall'.invoked[i].cmd] # UNDEFINED
                /\ lastCall'.thrown = NONE
      ]_vars

\* C15 witness: the Invoker has reverted two of three logged commands.
C15_Witness ==
    /\ lastCall.op = "undo"
    /\ Len(lastCall.invoked) = 1
    /\ lastCall.invoked[1].cmd \in applied
    /\ Len(executedCommands) = 3
    /\ currentExecutionState = 0

\* ---------------------------------------------------------------------
\* C16 (as claimed): from a state with cursor >= 0, undo() immediately
\* followed by redo() restores the cursor, the log and every receiver
\* property to their values before the undo.
C16_UndoRedoRestores ==
    [][ ( /\ lastCall.op = "undo"
          /\ Len(lastCall.invoked) = 1
          /\ lastCall'.op = "redo" ) =>
            /\ currentExecutionState' = lastCall.invoked[1].cursor + 1
            /\ executedCommands' = executedCommands
            /\ receiver' = receiverBefore
      ]_vars

\* ---------------------------------------------------------------------
\* C17: undo() and redo() leave the log as it is; execute() leaves the
\* entries at indices 0..cursor (pre-call cursor) as they are.
C17_LogFrame ==
    [][ /\ lastCall'.op \in {"undo", "redo"} => executedCommands' = executedCommands
        /\ lastCall'.op = "execute" =>
              /\ Len(executedCommands') >= currentExecutionState + 1
              /\ SubSeq(executedCommands', 1, currentExecutionState + 1) = AppliedPrefix
      ]_vars

\* C17 witness: execute, undo, redo, execute: the first entry is still at
\* index 0 below the second one.
C17_Witness ==
    /\ history # Overflow
    /\ Len(history) = 4
    /\ Returned(history[1], "execute")
    /\ Returned(history[2], "undo")
    /\ Returned(history[3], "redo") /\ Len(history[3].invoked) = 1
    /\ Returned(history[4], "execute")
    /\ executedCommands = << history[1].cmd, history[4].cmd >>

\* ---------------------------------------------------------------------
\* C18: an execute whose apply fails leaves the command appended at the tail
\* and the cursor at its pre-call value, one below the tail and within range;
\* a redo right after it invokes apply on that command; an execute right
\* after it removes that command from the log.
C18_FailedCommandStaysInRedoRange ==
    [][ /\ (lastCall'.op = "execute" /\ lastCall'.thrown # NONE) =>
              /\ executedCommands' = Append(AppliedPrefix, lastCall'.cmd)
              /\ currentExecutionState' = currentExecutionState
              /\ currentExecutionState' = Len(executedCommands') - 2
              /\ currentExecutionState' >= -1
        /\ (lastCall.op = "execute" /\ lastCall.thrown # NONE /\ lastCall'.op = "redo") =>
              /\ lastCall'.invoked =
                   << [cmd |-> lastCall.cmd, method |-> "execute",
                       cursor |-> currentExecutionState + 1] >>
              /\ executedCommands'[currentExecutionState' + 1] = lastCall.cmd
        /\ (lastCall.op = "execute" /\ lastCall.thrown # NONE /\ lastCall'.op = "execute") =>
              executedCommands' =
                  Append(SubSeq(executedCommands, 1, Len(executedCommands) - 1),
                         lastCall'.cmd)
      ]_vars

\* C18 witness: an execute that returned, an execute whose apply threw, and
\* an execute that returned: the failed command is gone from the log.
C18_Witness ==
    /\ history # Overflow
    /\ Len(history) = 3
    /\ Returned(history[1], "execute")
    /\ history[2].op = "execute" /\ history[2].thrown = "TypeError"
    /\ Returned(history[3], "execute")
    /\ executedCommands = << history[1].cmd, history[3].cmd >>
    /\ currentExecutionState = 1

\* ---------------------------------------------------------------------
\* C14: with the methods' statements interleaved between two callers, a state
\* with the cursor outside -1 .. length - 1, or a read of a log index that
\* does not exist, occurs only when one caller has taken a step while the
\* other was inside a method: as long as every method has run from its first
\* statement to its last alone, the cursor is in range and every read hits
\* the log.
C14_ViolationOnlyWhenInterleaved ==
    ~overlapped => (C1_CursorInRange /\ ~fault)

\* C14 witness: two overlapping calls have returned and left the cursor
\* below -1 after a read of an index outside the log.
C14_Witness ==
    /\ overlapped
    /\ \A k \in Callers : pc[k] = Idle
    /\ currentExecutionState < -1
    /\ fault

====
